---- MODULE Spec2Model ----
(***************************************************************************)
(* Model of the hardhat-verify Etherscan verification workflow             *)
(* (packages/hardhat-verify/src/internal/tasks/etherscan.ts).              *)
(*                                                                         *)
(* One behaviour of Spec is one run of the TASK_VERIFY_ETHERSCAN subtask:  *)
(* the task arguments are fixed in Init, every await of the task is one     *)
(* action, and what the collaborators (chain, block explorer, build         *)
(* artifacts) answer is drawn with \E when the task asks them.              *)
(*                                                                         *)
(* Spec also holds the runs of the subtask RESOLVE_ARGUMENTS on its own.   *)
(* VerifySpec is one run of the verify task of index.ts with the run of    *)
(* the Etherscan task it starts, the Sourcify subtasks being one step that  *)
(* returns or throws; VerifyVerifySpec is one run of verify:verify followed *)
(* by the Etherscan run it starts.                                          *)
(* CacheSpec is the ledger account cache (packages/hardhat-ledger/src/     *)
(* internal/cache.ts): calls of write() and read() on one file, which can   *)
(* overlap.                                                                 *)
(***************************************************************************)
EXTENDS Integers, Sequences, FiniteSets, TLC

\* ------------------------------------------------------------------ bounds
NumVersions == 2
NumContracts == 2

\* ------------------------------------------------------- program constants
SleepMs == 700

\* ------------------------------------------------------------- value sets
Versions == 1..NumVersions
ContractIds == 1..NumContracts
\* Tracking ids the block explorer hands out, a new one for each submission.
Guids == {101, 102}
Codes == {"code-a", "code-b"}
LibraryNames == {"Lib"}
\* The value null where a dictionary of libraries is expected: it is kept
\* apart from every dictionary over LibraryNames.
Null == {"null"}

\* A contract name is the sequence of its ":"-separated parts: <<>> stands
\* for undefined, <<name>> for a bare name, <<sourceName, name>> for a fully
\* qualified name.  Source file k declares the contract named k.
FQN(k) == <<k, k>>
ContractParams == {<< >>, <<1>>} \cup {FQN(k) : k \in ContractIds}

Addresses == {"undefined", "0xnot-an-address", "0xC0FFEE"}

ConstructorArgsModules == {"undefined", "args.js", "broken-args.js"}
ConstructorArgsParams == {<<7>>}

\* The libraries parameter is either undefined, an object or null (when the
\* task is run by verify:verify) or the path of a module.
LibrariesParams ==
    {[type |-> "undefined", exports |-> {}, loads |-> TRUE]} \cup
    {[type |-> "object", exports |-> l, loads |-> TRUE] : l \in SUBSET LibraryNames} \cup
    {[type |-> "object", exports |-> Null, loads |-> TRUE]} \cup
    {[type |-> "string", exports |-> LibraryNames, loads |-> TRUE],
     [type |-> "string", exports |-> {}, loads |-> FALSE]}

TaskArgsSet ==
    [address : Addresses,
     constructorArgsParams : ConstructorArgsParams,
     constructorArgs : ConstructorArgsModules,
     libraries : LibrariesParams,
     contract : ContractParams]

\* Deployed bytecode: the compiler version its metadata encodes (an exact
\* version, or a range, which leaves the version open just as metadata
\* without a version does), the OVM flag and its normalized code.
DeployedCode == "code-a"
BytecodeSet ==
    [tag : {"range"}, version : {0}, ovm : BOOLEAN, code : {DeployedCode}] \cup
    [tag : {"exact"}, version : Versions, ovm : BOOLEAN, code : {DeployedCode}]

\* The compiler versions of the project configuration: a list of distinct
\* versions, here in increasing order.
RECURSIVE SortedSeq(_)
SortedSeq(S) ==
    IF S = {} THEN << >>
    ELSE LET m == CHOOSE x \in S : \A y \in S : x <= y
         IN  <<m>> \o SortedSeq(S \ {m})

ConfigVersionLists == {SortedSeq(S) : S \in SUBSET Versions \ {{}}}

\* Build artifacts of the project: one per contract id.
ArtifactSet == [solcVersion : Versions, code : Codes]
Projects == [ContractIds -> ArtifactSet]

\* How many resolved files of a dependency graph can have the source name
\* the graph was asked for.
ResolvedFileCounts == {0, 1, 2}

\* Messages of the block explorer's status endpoint.
SuccessMessages == {"Pass - Verified"}
FailureMessages == {"Fail - Unable to verify", "Fail - Bytecode does not match"}
OtherMessages == {"Pending in queue", "Unknown response"}
StatusMessages == SuccessMessages \cup FailureMessages \cup OtherMessages

\* ------------------------------------------------------------ pure helpers
SeqToSet(s) == {s[i] : i \in 1..Len(s)}

RECURSIVE FilterEq(_, _)
FilterEq(s, v) ==
    IF s = << >> THEN << >>
    ELSE IF Head(s) = v THEN <<v>> \o FilterEq(Tail(s), v)
    ELSE FilterEq(Tail(s), v)

isAddress(address) == address = "0xC0FFEE"

isFullyQualifiedName(name) == Len(name) = 2

\* typeof librariesModule
typeofLibraries(librariesModule) == librariesModule.type

NoError == [type |-> "none", message |-> "", undetectableLibraries |-> {}]
Err(t) == [type |-> t, message |-> "", undetectableLibraries |-> {}]
ErrMsg(t, m) == [type |-> t, message |-> m, undetectableLibraries |-> {}]

\* resolveConstructorArguments(params, module): the positional parameters
\* when no module is given, else what the module exports.
constructorArgsModuleLoads(m) == m # "broken-args.js"
resolveConstructorArguments(params, m) ==
    IF m = "undefined" THEN params ELSE <<9>>

\* resolveLibraries(module): the dictionary the module exports.
resolveLibraries(librariesModule) == librariesModule.exports

\* The contract name is checked before the address.
ResolveArgumentsError_ContractFirst(args) ==
    IF args.contract # << >> /\ ~isFullyQualifiedName(args.contract)
        THEN Err("InvalidContractNameError")
    ELSE IF args.address = "undefined" THEN Err("MissingAddressError")
    ELSE IF ~isAddress(args.address) THEN Err("InvalidAddressError")
    ELSE IF ~constructorArgsModuleLoads(args.constructorArgs)
        THEN Err("InvalidConstructorArgumentsModuleError")
    ELSE IF typeofLibraries(args.libraries) # "object" /\ ~args.libraries.loads
        THEN Err("InvalidLibrariesModuleError")
    ELSE NoError

\* TASK_VERIFY_ETHERSCAN_RESOLVE_ARGUMENTS: the error it throws, NoError when
\* it returns.
ResolveArgumentsError(args) ==
    IF args.address = "undefined" THEN Err("MissingAddressError")
    ELSE IF ~isAddress(args.address) THEN Err("InvalidAddressError")
    ELSE IF args.contract # << >> /\ ~isFullyQualifiedName(args.contract)
        THEN Err("InvalidContractNameError")
    ELSE IF ~constructorArgsModuleLoads(args.constructorArgs)
        THEN Err("InvalidConstructorArgumentsModuleError")
    ELSE IF typeofLibraries(args.libraries) # "object" /\ ~args.libraries.loads
        THEN Err("InvalidLibrariesModuleError")
    ELSE NoError

ResolveArgumentsResult(args) ==
    [address |-> args.address,
     constructorArgs |->
        resolveConstructorArguments(args.constructorArgsParams, args.constructorArgs),
     libraries |->
        IF typeofLibraries(args.libraries) = "object" THEN args.libraries.exports
        ELSE resolveLibraries(args.libraries),
     contractFQN |-> args.contract]

NoVerificationArgs ==
    [address |-> "undefined", constructorArgs |-> << >>, libraries |-> {},
     contractFQN |-> << >>]

\* Bytecode.getMatchingVersions: the configured versions equal to the exact
\* version of the metadata; every configured version when the metadata has a
\* range or no version.
getMatchingVersions(bytecode, configured) ==
    IF bytecode.tag = "exact" THEN FilterEq(configured, bytecode.version)
    ELSE configured

isOvm(bytecode) == bytecode.ovm

NoBytecode == [tag |-> "range", version |-> 0, ovm |-> FALSE, code |-> "code-a"]

\* ------------------------------------------- contract information helpers
EmptyInput == [sources |-> {}, settings |-> [libraries |-> {}]]

NoContractInformation ==
    [sourceName |-> 0, contractName |-> 0, solcLongVersion |-> 0, abi |-> 0,
     compilerInput |-> EmptyInput, undetectableLibraries |-> {}, libraries |-> {}]

\* What the build info holds for one contract besides its bytecode: the
\* number of constructor inputs of its ABI and the libraries that only its
\* constructor uses.
ContractOutputs == [abi : {0, 1}, undetectable : SUBSET LibraryNames]

\* What artifacts.artifactExists and artifacts.getBuildInfo answer for a name.
NamedArtifacts ==
    [exists : BOOLEAN, hasBuildInfo : BOOLEAN, solcVersion : Versions, code : Codes]

\* The contract information extracted from a build info: the full compiler
\* input of the build (every source file of the project, no libraries linked
\* in its settings).
ContractInformationOf(k, solcVersion, out) ==
    [sourceName |-> FQN(k)[1], contractName |-> FQN(k)[2],
     solcLongVersion |-> solcVersion, abi |-> out.abi,
     compilerInput |-> [sources |-> ContractIds, settings |-> [libraries |-> {}]],
     undetectableLibraries |-> out.undetectable, libraries |-> {}]

\* extractMatchingContractInformation: null (FALSE here) when the bytecode of
\* the named contract does not match the deployed bytecode.
extractMatchingMatches(art, bytecode) == art.code = bytecode.code

\* The bytecode of the named contract is compared before its compiler
\* version is checked.
NamedModeError_BytecodeFirst(art, matching, bytecode) ==
    IF ~art.exists THEN Err("ContractNotFoundError")
    ELSE IF ~art.hasBuildInfo THEN Err("BuildInfoNotFoundError")
    ELSE IF ~extractMatchingMatches(art, bytecode)
        THEN Err("DeployedBytecodeMismatchError")
    ELSE IF art.solcVersion \notin SeqToSet(matching) /\ ~isOvm(bytecode)
        THEN Err("BuildInfoCompilerVersionMismatchError")
    ELSE NoError

\* TASK_VERIFY_ETHERSCAN_GET_CONTRACT_INFORMATION, named mode: the error the
\* checks of lines 287-320 end in, NoError when they all pass.
NamedModeError(art, matching, bytecode) ==
    IF ~art.exists THEN Err("ContractNotFoundError")
    ELSE IF ~art.hasBuildInfo THEN Err("BuildInfoNotFoundError")
    ELSE IF art.solcVersion \notin SeqToSet(matching) /\ ~isOvm(bytecode)
        THEN Err("BuildInfoCompilerVersionMismatchError")
    ELSE IF ~extractMatchingMatches(art, bytecode)
        THEN Err("DeployedBytecodeMismatchError")
    ELSE NoError

\* extractInferredContractInformation: the contracts built with a matching
\* compiler version whose normalized bytecode equals the deployed one.
InferredMatches(project, matching, bytecode) ==
    {k \in ContractIds :
        /\ project[k].solcVersion \in SeqToSet(matching)
        /\ project[k].code = bytecode.code}

InferredModeError(project, matching, bytecode) ==
    LET n == Cardinality(InferredMatches(project, matching, bytecode))
    IN  IF n = 0 THEN Err("NoMatchingContractError")
        ELSE IF n > 1 THEN Err("MultipleMatchingContractsError")
        ELSE NoError

\* getLibraryInformation: every undetectable library needs exactly one
\* supplied address and no supplied library may be left unused.  The
\* supplied libraries are read entry by entry, which null does not allow.
LibraryInformationError(info, libraries) ==
    IF libraries = Null THEN Err("TypeError")
    ELSE IF libraries # info.undetectableLibraries THEN Err("LibraryLinkingError")
    ELSE NoError

\* encodeArguments: one encoded word per constructor argument; the number of
\* arguments has to be the one the ABI declares.
EncodeArgumentsError(abi, args) ==
    IF Len(args) # abi THEN Err("ABIArgumentLengthError") ELSE NoError
encodeArguments(abi, args) == [i \in 1..Len(args) |-> <<"word", args[i]>>]

\* JSON.stringify(compilerInput): the text of the input as it is at the time
\* of the call.
JSONstringify(input) ==
    <<"{sources:", input.sources, ",settings:{libraries:", input.settings.libraries, "}}">>

\* EtherscanResponse.isSuccess / isFailure
isSuccess(status) == status.message \in SuccessMessages
isFailure(status) == status.message \in FailureMessages

\* A status that is still pending is taken for a failure.
StatusIsUnexpected_PendingIsFailure(status) ==
    ~(isFailure(status) \/ isSuccess(status) \/ status.message = "Pending in queue")

\* etherscan.ts 413: the status that makes the attempt throw
StatusIsUnexpected(status) == ~(isFailure(status) \/ isSuccess(status))

\* etherscan.ts 426-429
VerificationResponse(status) ==
    [success |-> isSuccess(status), message |-> status.message]

\* The full input is submitted first.
AttemptInput_FullFirst(n) == "full"

\* etherscan.ts 180 and 203: the compiler input each attempt is given
AttemptInput(n) == IF n = 1 THEN "minimal" ELSE "full"

\* The success flag of the first attempt is not looked at.
AfterAttempt_IgnoreSuccess(n, response) ==
    IF n = 1 THEN "retry"
    ELSE IF response.success THEN "return"
    ELSE "throw"

\* A failure of the first attempt is final.
AfterAttempt_NoRetry(n, response) ==
    IF response.success THEN "return" ELSE "throw"

\* Every failure is retried.
AfterAttempt_AlwaysRetry(n, response) ==
    IF response.success THEN "return" ELSE "retry"

\* etherscan.ts 186-188, 210-217: what the task does with the response of
\* attempt n
AfterAttempt(n, response) ==
    IF response.success THEN "return"
    ELSE IF n = 1 THEN "retry"
    ELSE "throw"

\* The OVM flag is not looked at.
VersionsMismatch_IgnoreOvm(matching, bytecode) == Len(matching) = 0

\* The answer of isVerified is not looked at.
AfterIsVerified_Ignored(isVerified) == "fetchBytecode"

\* etherscan.ts 125-130: where the task goes on after isVerified
AfterIsVerified(isVerified) == IF isVerified THEN "done" ELSE "fetchBytecode"

\* The number of resolved files is only checked for being positive.
MinimalInputError_FirstOfMany(n) ==
    IF n = 0 THEN Err("UnexpectedNumberOfFilesError") ELSE NoError

\* etherscan.ts 352-358: n is the number of resolved files of the dependency
\* graph that have the source name
MinimalInputError(n) ==
    IF n # 1 THEN Err("UnexpectedNumberOfFilesError") ELSE NoError

\* The libraries are left out of the compiler input.
LinkLibraries_NotLinked(input, info) == input

\* etherscan.ts 393: compilerInput.settings.libraries = contractInformation.libraries
LinkLibraries(input, info) ==
    [input EXCEPT !.settings.libraries = info.libraries]

\* The second submission is made without the constructor arguments.
SubmissionPayload_RetryWithoutArguments(n, address, input, info, encoded) ==
    [address |-> address,
     input |-> n,
     compilerInput |-> input,
     contractIdentifier |-> <<info.sourceName, ":", info.contractName>>,
     compilerVersion |-> <<"v", info.solcLongVersion>>,
     constructorArguments |-> IF n = "minimal" THEN encoded ELSE << >>]

\* etherscan.ts 395-401: the arguments of verificationInterface.verify; n
\* names the input object, input is its JSON text
SubmissionPayload(n, address, input, info, encoded) ==
    [address |-> address,
     input |-> n,
     compilerInput |-> input,
     contractIdentifier |-> <<info.sourceName, ":", info.contractName>>,
     compilerVersion |-> <<"v", info.solcLongVersion>>,
     constructorArguments |-> encoded]

\* etherscan.ts 144: the condition of CompilerVersionsMismatchError
VersionsMismatch(matching, bytecode) == Len(matching) = 0 /\ ~isOvm(bytecode)

\* ------------------------------------------------------------------- state
VARIABLES
    taskArgs,                  \* arguments of the run
    pc,                        \* position of the task
    error,                     \* the error the run has raised, NoError if none
    events,                    \* the stages and service calls made, in order
    verificationArgs,          \* result of RESOLVE_ARGUMENTS
    configCompilerVersions,
    deployedBytecode,
    matchingCompilerVersions,
    resolution,                \* what the artifacts answered to the resolver
    contractInformation,
    minimalInput,
    encodedConstructorArguments,
    attempt,                   \* 0 before the first attempt, then 1 or 2
    guid,                      \* tracking id of the attempt in progress
    submissions,               \* what verify() was called with, in order
    responses,                 \* what the attempts returned, in order
    listNetworks,              \* the listNetworks flag of the verify task
    config,                    \* the enabled flags of config and userConfig
    verificationSubtasks,      \* result of GET_VERIFICATION_SUBTASKS
    verifyPc,                  \* position of the verify task
    cursor,                    \* index of the next subtask of the loop
    calls,                     \* the tasks run by verify and verify:verify
    errors,                    \* the errors caught, by subtask name
    hasErrors,
    output,                    \* what the verify task has printed
    exits,                     \* the codes process.exit was called with
    subtaskArgs,               \* arguments of verify:verify
    cacheFile,                 \* the ledger cache file accounts.json
    writers,                   \* the calls of write() in progress
    reader,                    \* the call of read() in progress
    lastWritten,               \* the json of the last write() that returned
    lastResult                 \* what the last read() ended in

vars == <<taskArgs, pc, error, events, verificationArgs, configCompilerVersions,
          deployedBytecode, matchingCompilerVersions, resolution,
          contractInformation, minimalInput, encodedConstructorArguments,
          attempt, guid, submissions, responses, listNetworks, config,
          verificationSubtasks, verifyPc, cursor, calls, errors, hasErrors,
          output, exits, subtaskArgs, cacheFile, writers, reader, lastWritten,
          lastResult>>

\* The state of the ledger cache, which the verification tasks leave alone.
cacheVars == <<cacheFile, writers, reader, lastWritten, lastResult>>

\* The state of the tasks of index.ts, which the Etherscan task leaves alone.
verifyVars == <<listNetworks, config, verificationSubtasks, verifyPc, cursor,
                calls, errors, hasErrors, output, exits, subtaskArgs>>
argVars == <<taskArgs, verificationArgs>>
bytecodeVars == <<configCompilerVersions, deployedBytecode, matchingCompilerVersions>>
infoVars == <<resolution, contractInformation>>
attemptVars == <<attempt, guid, submissions, responses>>

\* An entry of the log: what was done, its number (the tracking id of a
\* submission or a status check, the duration of a pause), the attempt it
\* belongs to (0 outside the attempts) and the message a status check got.
EvMsg(e, a, att, m) == [e |-> e, a |-> a, att |-> att, message |-> m]
Ev(e, a, att) == EvMsg(e, a, att, "")

NoResolution ==
    [mode |-> "none", exists |-> FALSE, hasBuildInfo |-> FALSE, solcVersion |-> 0,
     codeMatches |-> FALSE, matches |-> 0]

\* The Etherscan task before its first statement.
EtherscanNotStarted ==
    /\ error = NoError
    /\ events = << >>
    /\ verificationArgs = NoVerificationArgs
    /\ configCompilerVersions = << >>
    /\ deployedBytecode = NoBytecode
    /\ matchingCompilerVersions = << >>
    /\ resolution = NoResolution
    /\ contractInformation = NoContractInformation
    /\ minimalInput = EmptyInput
    /\ encodedConstructorArguments = << >>
    /\ attempt = 0
    /\ guid = 0
    /\ submissions = << >>
    /\ responses = << >>

NoConfig == [etherscan |-> FALSE, sourcify |-> FALSE, userSourcify |-> "undefined"]
NoErrors == [n \in {} |-> NoError]
NoSubtaskArgs ==
    [address |-> "undefined",
     constructorArguments |-> [isArray |-> TRUE, value |-> << >>],
     libraries |-> [type |-> "object", isArray |-> FALSE, exports |-> {}],
     contract |-> << >>]

\* The verify task before its first statement, without its arguments.
VerifyNotStarted ==
    /\ verificationSubtasks = << >>
    /\ cursor = 1
    /\ calls = << >>
    /\ errors = NoErrors
    /\ hasErrors = FALSE
    /\ output = << >>
    /\ exits = << >>

\* A JSON object of the cache: its members in the order they were inserted,
\* each a pair of a key and a string, no key twice.
CacheKeys == {"a", "b"}
CacheStrings == {"x", "y"}
NoJson == << >>
Jsons ==
    {<< >>, <<<<"a", "y">>>>, <<<<"a", "x">>, <<"b", "y">>>>,
     <<<<"b", "y">>, <<"a", "x">>>>}

\* The calls of write() that can be in progress at the same time.
Writers == {"w1", "w2"}

NoFile == [exists |-> FALSE, text |-> << >>]
NoWriter == [pc |-> "idle", json |-> NoJson]
NoReader == [pc |-> "idle", overlapped |-> FALSE, size |-> 0, data |-> << >>]
NothingWritten == [defined |-> FALSE, json |-> NoJson]
NoResult == [kind |-> "none", value |-> NoJson]

\* No call of the ledger cache is in progress and none was made.
CacheNotStarted ==
    /\ writers = [w \in Writers |-> NoWriter]
    /\ reader = NoReader
    /\ lastWritten = NothingWritten
    /\ lastResult = NoResult

\* TASK_VERIFY_ETHERSCAN declares address with addParam (l.96): run() enters
\* its action only with an address.
EtherscanTaskArgsSet == {a \in TaskArgsSet : a.address # "undefined"}

\* The Etherscan task run on its own, or its subtask RESOLVE_ARGUMENTS run on
\* its own, whose parameters are all optional (l.220-226): the tasks of
\* index.ts are not running.
Init ==
    /\ \/ pc = "resolveArguments" /\ taskArgs \in EtherscanTaskArgsSet
       \/ pc = "resolveArgumentsSubtask" /\ taskArgs \in TaskArgsSet
    /\ EtherscanNotStarted
    /\ listNetworks = FALSE
    /\ config = NoConfig
    /\ verifyPc = "idle"
    /\ subtaskArgs = NoSubtaskArgs
    /\ VerifyNotStarted
    /\ cacheFile = NoFile
    /\ CacheNotStarted

\* The statements of TASK_VERIFY_ETHERSCAN in program order.
Steps ==
    <<"resolveArguments", "chainConfig", "isVerified", "fetchBytecode",
      "matchVersions", "contractInformation", "libraryInformation",
      "minimalInput", "encodeArguments", "submit", "sleep", "poll", "done">>
StepAfter(p) ==
    LET i == CHOOSE j \in DOMAIN Steps : Steps[j] = p
    IN  IF i = Len(Steps) THEN "done" ELSE Steps[i + 1]

\* The error is constructed but the statement is not left: the run goes on
\* with the next statement.
Throw_NotThrown(err) ==
    /\ error' = err
    /\ pc' = StepAfter(pc)

\* throw: the run ends with the error
Throw(err) ==
    /\ error' = err
    /\ pc' = "done"

\* etherscan.ts 108-111, 227-268
ResolveArguments ==
    /\ pc = "resolveArguments"
    /\ events' = Append(events, Ev("resolveArguments", 0, 0))
    /\ IF ResolveArgumentsError(taskArgs) # NoError
       THEN /\ Throw(ResolveArgumentsError(taskArgs))
            /\ UNCHANGED verificationArgs
       ELSE /\ verificationArgs' = ResolveArgumentsResult(taskArgs)
            /\ pc' = "chainConfig"
            /\ UNCHANGED error
    /\ UNCHANGED <<cacheVars, verifyVars, taskArgs, bytecodeVars, infoVars, minimalInput,
                   encodedConstructorArguments, attemptVars>>

\* etherscan.ts 220-268: RESOLVE_ARGUMENTS run on its own returns the
\* verification arguments or throws.
ResolveArgumentsSubtask ==
    /\ pc = "resolveArgumentsSubtask"
    /\ events' = Append(events, Ev("resolveArguments", 0, 0))
    /\ IF ResolveArgumentsError(taskArgs) # NoError
       THEN /\ error' = ResolveArgumentsError(taskArgs)
            /\ pc' = "done"
            /\ UNCHANGED verificationArgs
       ELSE /\ verificationArgs' = ResolveArgumentsResult(taskArgs)
            /\ pc' = "returned"
            /\ UNCHANGED error
    /\ UNCHANGED <<cacheVars, verifyVars, taskArgs, bytecodeVars, infoVars, minimalInput,
                   encodedConstructorArguments, attemptVars>>

\* etherscan.ts 113-122: the chain id is asked of the network provider
GetCurrentChainConfig ==
    /\ pc = "chainConfig"
    /\ events' = Append(events, Ev("chainConfig", 0, 0))
    /\ \/ pc' = "isVerified" /\ UNCHANGED error
       \/ Throw(Err("ChainConfigNotFoundError"))
    /\ UNCHANGED <<cacheVars, verifyVars, argVars, bytecodeVars, infoVars, minimalInput,
                   encodedConstructorArguments, attemptVars>>

\* etherscan.ts 124-130
IsVerified ==
    /\ pc = "isVerified"
    /\ \/ \E isVerified \in BOOLEAN :
            /\ events' = Append(events, Ev("isVerified", IF isVerified THEN 1 ELSE 0, 0))
            /\ pc' = AfterIsVerified(isVerified)
            /\ UNCHANGED error
       \/ /\ events' = Append(events, Ev("isVerified", 0, 0))
          /\ Throw(Err("NetworkRequestError"))
    /\ UNCHANGED <<cacheVars, verifyVars, argVars, bytecodeVars, infoVars, minimalInput,
                   encodedConstructorArguments, attemptVars>>

\* etherscan.ts 132-138
GetDeployedContractBytecode ==
    /\ pc = "fetchBytecode"
    /\ events' = Append(events, Ev("fetchBytecode", 0, 0))
    /\ \E configured \in ConfigVersionLists :
         /\ configCompilerVersions' = configured
         /\ \/ \E bytecode \in BytecodeSet :
                 /\ deployedBytecode' = bytecode
                 /\ pc' = "matchVersions"
                 /\ UNCHANGED error
            \/ /\ Throw(Err("DeployedBytecodeNotFoundError"))
               /\ UNCHANGED deployedBytecode
    /\ UNCHANGED <<cacheVars, verifyVars, argVars, matchingCompilerVersions, infoVars, minimalInput,
                   encodedConstructorArguments, attemptVars>>

\* etherscan.ts 140-150
GetMatchingVersions ==
    /\ pc = "matchVersions"
    /\ events' = Append(events, Ev("matchVersions", 0, 0))
    /\ LET matching == getMatchingVersions(deployedBytecode, configCompilerVersions)
       IN  /\ matchingCompilerVersions' = matching
           /\ IF VersionsMismatch(matching, deployedBytecode)
              THEN Throw(Err("CompilerVersionsMismatchError"))
              ELSE pc' = "contractInformation" /\ UNCHANGED error
    /\ UNCHANGED <<cacheVars, verifyVars, argVars, configCompilerVersions, deployedBytecode, infoVars,
                   minimalInput, encodedConstructorArguments, attemptVars>>

\* etherscan.ts 285-328: named mode
ResolveNamedContract ==
    /\ pc = "contractInformation"
    /\ verificationArgs.contractFQN # << >>
    /\ events' = Append(events, Ev("contractResolution", 1, 0))
    /\ \E art \in NamedArtifacts, out \in ContractOutputs :
         LET err == NamedModeError(art, matchingCompilerVersions, deployedBytecode)
         IN  /\ resolution' =
                   [mode |-> "named", exists |-> art.exists,
                    hasBuildInfo |-> art.exists /\ art.hasBuildInfo,
                    solcVersion |->
                        IF art.exists /\ art.hasBuildInfo THEN art.solcVersion ELSE 0,
                    codeMatches |->
                        art.exists /\ art.hasBuildInfo
                        /\ extractMatchingMatches(art, deployedBytecode),
                    matches |-> 0]
             /\ IF err # NoError
                THEN Throw(err) /\ UNCHANGED contractInformation
                ELSE /\ contractInformation' =
                          ContractInformationOf(verificationArgs.contractFQN[1],
                                                art.solcVersion, out)
                     /\ pc' = "libraryInformation"
                     /\ UNCHANGED error
    /\ UNCHANGED <<cacheVars, verifyVars, argVars, bytecodeVars, minimalInput,
                   encodedConstructorArguments, attemptVars>>

\* etherscan.ts 321-328: inferred mode
ResolveInferredContract ==
    /\ pc = "contractInformation"
    /\ verificationArgs.contractFQN = << >>
    /\ events' = Append(events, Ev("contractResolution", 0, 0))
    /\ \E project \in Projects, out \in ContractOutputs :
         LET found == InferredMatches(project, matchingCompilerVersions, deployedBytecode)
             err == InferredModeError(project, matchingCompilerVersions, deployedBytecode)
         IN  /\ resolution' = [NoResolution EXCEPT !.mode = "inferred",
                                                   !.matches = Cardinality(found)]
             /\ IF err # NoError
                THEN Throw(err) /\ UNCHANGED contractInformation
                ELSE /\ contractInformation' =
                          LET k == CHOOSE c \in found : TRUE
                          IN  ContractInformationOf(k, project[k].solcVersion, out)
                     /\ pc' = "libraryInformation"
                     /\ UNCHANGED error
    /\ UNCHANGED <<cacheVars, verifyVars, argVars, bytecodeVars, minimalInput,
                   encodedConstructorArguments, attemptVars>>

\* etherscan.ts 330-339
GetLibraryInformation ==
    /\ pc = "libraryInformation"
    /\ events' = Append(events, Ev("libraryResolution", 0, 0))
    /\ LET err == LibraryInformationError(contractInformation, verificationArgs.libraries)
       IN  IF err # NoError
           THEN Throw(err) /\ UNCHANGED contractInformation
           ELSE /\ contractInformation' =
                     [contractInformation EXCEPT !.libraries = verificationArgs.libraries]
                /\ pc' = "minimalInput"
                /\ UNCHANGED error
    /\ UNCHANGED <<cacheVars, verifyVars, argVars, bytecodeVars, resolution, minimalInput,
                   encodedConstructorArguments, attemptVars>>

\* etherscan.ts 162-167, 343-376: the dependency graph names the files the
\* source imports (none, or every other file of the project) and has n
\* resolved files with the source name; the input is built from exactly one
GetMinimalInput ==
    /\ pc = "minimalInput"
    /\ \E n \in ResolvedFileCounts,
          deps \in {{}, ContractIds \ {contractInformation.sourceName}} :
         /\ events' = Append(events, Ev("minimalInput", n, 0))
         /\ IF MinimalInputError(n) # NoError
            THEN /\ Throw(MinimalInputError(n))
                 /\ UNCHANGED minimalInput
            ELSE /\ minimalInput' =
                      [sources |-> {contractInformation.sourceName} \cup deps,
                       settings |-> [libraries |-> {}]]
                 /\ pc' = "encodeArguments"
                 /\ UNCHANGED error
    /\ UNCHANGED <<cacheVars, verifyVars, argVars, bytecodeVars, infoVars,
                   encodedConstructorArguments, attemptVars>>

\* etherscan.ts 169-174
EncodeArguments ==
    /\ pc = "encodeArguments"
    /\ events' = Append(events, Ev("encodeArguments", 0, 0))
    /\ LET err == EncodeArgumentsError(contractInformation.abi,
                                       verificationArgs.constructorArgs)
       IN  IF err # NoError
           THEN /\ Throw(err)
                /\ UNCHANGED <<encodedConstructorArguments, attempt>>
           ELSE /\ encodedConstructorArguments' =
                     encodeArguments(contractInformation.abi,
                                     verificationArgs.constructorArgs)
                /\ attempt' = 1
                /\ pc' = "submit"
                /\ UNCHANGED error
    /\ UNCHANGED <<cacheVars, verifyVars, argVars, bytecodeVars, infoVars, minimalInput, guid,
                   submissions, responses>>

\* The compiler input object attempt n works on.
InputObject(n) ==
    IF AttemptInput(n) = "minimal" THEN minimalInput
    ELSE contractInformation.compilerInput

\* etherscan.ts 393-401: the libraries are written into the input object,
\* then the input is submitted
AttemptSubmit ==
    /\ pc = "submit"
    /\ LET linked == LinkLibraries(InputObject(attempt), contractInformation)
           payload ==
               SubmissionPayload(AttemptInput(attempt), verificationArgs.address,
                                 JSONstringify(linked), contractInformation,
                                 encodedConstructorArguments)
       IN  /\ IF AttemptInput(attempt) = "minimal"
              THEN /\ minimalInput' = linked
                   /\ UNCHANGED contractInformation
              ELSE /\ contractInformation' =
                        [contractInformation EXCEPT !.compilerInput = linked]
                   /\ UNCHANGED minimalInput
           /\ submissions' = Append(submissions, payload)
    /\ \/ \E g \in Guids \ {guid} :
            /\ guid' = g
            /\ events' = Append(events, Ev("submit", g, attempt))
            /\ pc' = "sleep"
            /\ UNCHANGED error
       \/ /\ events' = Append(events, Ev("submit", 0, attempt))
          /\ Throw(Err("ContractVerificationRequestError"))
          /\ UNCHANGED guid
    /\ UNCHANGED <<cacheVars, verifyVars, argVars, bytecodeVars, resolution,
                   encodedConstructorArguments, attempt, responses>>

\* The status is asked for right after the submission.
AttemptSleep_Skipped ==
    /\ pc = "sleep"
    /\ pc' = "poll"
    /\ UNCHANGED <<cacheVars, verifyVars, argVars, bytecodeVars, infoVars, minimalInput, error, events,
                   encodedConstructorArguments, attemptVars>>

\* etherscan.ts 409
AttemptSleep ==
    /\ pc = "sleep"
    /\ events' = Append(events, Ev("sleep", SleepMs, attempt))
    /\ pc' = "poll"
    /\ UNCHANGED <<cacheVars, verifyVars, argVars, bytecodeVars, infoVars, minimalInput, error,
                   encodedConstructorArguments, attemptVars>>

\* etherscan.ts 410-430, then 186-217 of the task that ran the attempt
AttemptPoll ==
    /\ pc = "poll"
    /\ \/ \E message \in StatusMessages :
            LET status == [message |-> message]
                response == VerificationResponse(status)
            IN  /\ events' = Append(events, EvMsg("poll", guid, attempt, message))
                /\ IF StatusIsUnexpected(status)
                   THEN /\ Throw(ErrMsg("VerificationAPIUnexpectedMessageError", message))
                        /\ UNCHANGED <<attempt, responses>>
                   ELSE /\ responses' = Append(responses, response)
                        /\ CASE AfterAttempt(attempt, response) = "return" ->
                                   /\ pc' = "done"
                                   /\ UNCHANGED <<error, attempt>>
                             [] AfterAttempt(attempt, response) = "retry" ->
                                   /\ pc' = "submit"
                                   /\ attempt' = attempt + 1
                                   /\ UNCHANGED error
                             [] OTHER ->
                                   /\ Throw([type |-> "ContractVerificationFailedError",
                                             message |-> response.message,
                                             undetectableLibraries |->
                                                 contractInformation.undetectableLibraries])
                                   /\ UNCHANGED attempt
       \/ /\ events' = Append(events, EvMsg("poll", guid, attempt, "request failed"))
          /\ Throw(Err("ContractStatusPollingError"))
          /\ UNCHANGED <<attempt, responses>>
    /\ UNCHANGED <<cacheVars, verifyVars, argVars, bytecodeVars, infoVars, minimalInput,
                   encodedConstructorArguments, guid, submissions>>

Next ==
    \/ ResolveArgumentsSubtask
    \/ ResolveArguments
    \/ GetCurrentChainConfig
    \/ IsVerified
    \/ GetDeployedContractBytecode
    \/ GetMatchingVersions
    \/ ResolveNamedContract
    \/ ResolveInferredContract
    \/ GetLibraryInformation
    \/ GetMinimalInput
    \/ EncodeArguments
    \/ AttemptSubmit
    \/ AttemptSleep
    \/ AttemptPoll

Spec == Init /\ [][Next]_vars

\* ---------------------------------------------------- the tasks of index.ts
TASK_VERIFY_ETHERSCAN == "verify:etherscan"
TASK_VERIFY_SOURCIFY == "verify:sourcify"
TASK_VERIFY_SOURCIFY_DISABLED_WARNING == "verify:sourcify-disabled-warning"
TASK_VERIFY_PRINT_SUPPORTED_NETWORKS == "verify:print-supported-networks"
TASK_VERIFY_GET_VERIFICATION_SUBTASKS == "verify:get-verification-subtasks"

\* config.etherscan.enabled, config.sourcify.enabled and
\* userConfig.sourcify?.enabled, which is undefined when the user sets nothing.
ConfigSet ==
    [etherscan : BOOLEAN, sourcify : BOOLEAN,
     userSourcify : {"undefined", "true", "false"}]

\* What running one of the Sourcify subtasks ends in: it returns, or it
\* throws.
SubtaskOutcomes ==
    {NoError, Err("ContractVerificationFailedError"), Err("NetworkRequestError")}

\* The arguments the verify task is started with and hands to each subtask.
VerifyTaskArgsSet ==
    {a \in TaskArgsSet : /\ a.constructorArgs = "undefined"
                         /\ a.libraries.type = "undefined"
                         /\ a.contract \in {<< >>, FQN(1)}}

NoTaskArgs ==
    [address |-> "undefined", constructorArgsParams |-> << >>,
     constructorArgs |-> "undefined",
     libraries |-> [type |-> "undefined", exports |-> {}, loads |-> TRUE],
     contract |-> << >>]

etherscanVars ==
    <<taskArgs, pc, error, events, verificationArgs, bytecodeVars, infoVars,
      minimalInput, encodedConstructorArguments, attemptVars>>

\* The Sourcify entry is pushed before the Etherscan task.
VerificationSubtasksOf_SourcifyFirst(cfg) ==
    (IF cfg.sourcify THEN <<TASK_VERIFY_SOURCIFY>>
     ELSE IF cfg.userSourcify \in {"undefined", "false"}
         THEN <<TASK_VERIFY_SOURCIFY_DISABLED_WARNING>>
     ELSE << >>)
    \o (IF cfg.etherscan THEN <<TASK_VERIFY_ETHERSCAN>> ELSE << >>)

\* TASK_VERIFY_GET_VERIFICATION_SUBTASKS: the list it returns.
VerificationSubtasksOf(cfg) ==
    (IF cfg.etherscan THEN <<TASK_VERIFY_ETHERSCAN>> ELSE << >>)
    \o (IF cfg.sourcify THEN <<TASK_VERIFY_SOURCIFY>>
        ELSE IF cfg.userSourcify \in {"undefined", "false"}
            THEN <<TASK_VERIFY_SOURCIFY_DISABLED_WARNING>>
        ELSE << >>)

\* The return after printing the networks is missing.
AfterPrintSupportedNetworks_NoReturn == "getSubtasks"

\* index.ts 89: return
AfterPrintSupportedNetworks == "done"

\* The loop is left at the first subtask that throws.
AfterSubtask_StopOnError(i, list, outcome) ==
    IF outcome # NoError THEN "report"
    ELSE IF i < Len(list) THEN "runSubtasks" ELSE "report"

\* index.ts 98: the loop goes on to the next subtask of the list, whatever
\* the subtask ended in.
AfterSubtask(i, list, outcome) ==
    IF i < Len(list) THEN "runSubtasks" ELSE "report"

\* errors[verificationSubtask] = error
RecordError(errs, name, err) ==
    [n \in DOMAIN errs \cup {name} |-> IF n = name THEN err ELSE errs[n]]

Printed(what, errs) == [what |-> what, errors |-> errs]
\* One run(task, args) and what it ended in.
Call(task, args, outcome) == [task |-> task, args |-> args, outcome |-> outcome]

\* index.ts 86-87
Verify ==
    /\ verifyPc = "start"
    /\ verifyPc' = IF listNetworks THEN "printNetworks" ELSE "getSubtasks"
    /\ UNCHANGED <<cacheVars, etherscanVars, listNetworks, config, verificationSubtasks,
                   cursor, calls, errors, hasErrors, output, exits, subtaskArgs>>

\* index.ts 88-89, 113-118
PrintSupportedNetworks ==
    /\ verifyPc = "printNetworks"
    /\ calls' = Append(calls, Call(TASK_VERIFY_PRINT_SUPPORTED_NETWORKS, NoTaskArgs, NoError))
    /\ output' = Append(output, Printed("supportedNetworks", NoErrors))
    /\ verifyPc' = AfterPrintSupportedNetworks
    /\ UNCHANGED <<cacheVars, etherscanVars, listNetworks, config, verificationSubtasks,
                   cursor, errors, hasErrors, exits, subtaskArgs>>

\* index.ts 92-97, 120-148
GetVerificationSubtasks ==
    /\ verifyPc = "getSubtasks"
    /\ calls' = Append(calls, Call(TASK_VERIFY_GET_VERIFICATION_SUBTASKS, NoTaskArgs,
                              NoError))
    /\ verificationSubtasks' = VerificationSubtasksOf(config)
    /\ output' = IF ~config.etherscan /\ ~config.sourcify
                 THEN Append(output, Printed("noServicesWarning", NoErrors))
                 ELSE output
    /\ verifyPc' = IF Len(verificationSubtasks') = 0 THEN "report" ELSE "runSubtasks"
    /\ UNCHANGED <<cacheVars, etherscanVars, listNetworks, config, cursor, errors,
                   hasErrors, exits, subtaskArgs>>

\* run() rejects a call of the Etherscan task that lacks the address its
\* declaration demands (etherscan.ts 96), before the action is entered.
RunRejects(name, args) ==
    IF name = TASK_VERIFY_ETHERSCAN /\ args.address = "undefined"
    THEN Err("HardhatError") ELSE NoError

\* index.ts 100-104: the subtask has ended in outcome; the catch records
\* what it threw.
SubtaskEnded(name, outcome) ==
    /\ calls' = Append(calls, Call(name, taskArgs, outcome))
    /\ IF outcome # NoError
       THEN /\ hasErrors' = TRUE
            /\ errors' = RecordError(errors, name, outcome)
       ELSE UNCHANGED <<hasErrors, errors>>
    /\ cursor' = cursor + 1
    /\ verifyPc' = AfterSubtask(cursor, verificationSubtasks, outcome)

\* index.ts 98-100: one turn of the loop runs the next subtask.  The
\* Etherscan task is the task of etherscan.ts, which then runs from its first
\* statement; the Sourcify subtasks return or throw.
RunSubtask ==
    /\ verifyPc = "runSubtasks"
    /\ LET name == verificationSubtasks[cursor]
       IN  IF RunRejects(name, taskArgs) # NoError
           THEN /\ SubtaskEnded(name, RunRejects(name, taskArgs))
                /\ UNCHANGED pc
           ELSE IF name = TASK_VERIFY_ETHERSCAN
           THEN /\ pc' = "resolveArguments"
                /\ verifyPc' = "awaitSubtask"
                /\ UNCHANGED <<calls, hasErrors, errors, cursor>>
           ELSE /\ \E outcome \in SubtaskOutcomes : SubtaskEnded(name, outcome)
                /\ UNCHANGED pc
    /\ UNCHANGED <<cacheVars, taskArgs, error, events, verificationArgs, bytecodeVars,
                   infoVars, minimalInput, encodedConstructorArguments, attemptVars,
                   listNetworks, config, verificationSubtasks, output, exits,
                   subtaskArgs>>

\* index.ts 100-104: the Etherscan task has returned or thrown.
EtherscanSubtaskEnds ==
    /\ verifyPc = "awaitSubtask"
    /\ pc = "done"
    /\ SubtaskEnded(verificationSubtasks[cursor], error)
    /\ UNCHANGED <<cacheVars, etherscanVars, listNetworks, config, verificationSubtasks,
                   output, exits, subtaskArgs>>

\* index.ts 107-108
PrintVerificationErrors ==
    /\ verifyPc = "report"
    /\ IF hasErrors
       THEN /\ output' = Append(output, Printed("verificationErrors", errors))
            /\ verifyPc' = "exit"
       ELSE /\ verifyPc' = "done"
            /\ UNCHANGED output
    /\ UNCHANGED <<cacheVars, etherscanVars, listNetworks, config, verificationSubtasks,
                   cursor, calls, errors, hasErrors, exits, subtaskArgs>>

\* index.ts 109: process.exit(1)
ProcessExit ==
    /\ verifyPc = "exit"
    /\ exits' = Append(exits, 1)
    /\ verifyPc' = "done"
    /\ UNCHANGED <<cacheVars, etherscanVars, listNetworks, config, verificationSubtasks,
                   cursor, calls, errors, hasErrors, output, subtaskArgs>>

\* One run of the verify task, the run of the Etherscan task included.
VerifyInit ==
    /\ taskArgs \in VerifyTaskArgsSet
    /\ pc = "idle"
    /\ EtherscanNotStarted
    /\ listNetworks \in BOOLEAN
    /\ config \in ConfigSet
    /\ verifyPc = "start"
    /\ subtaskArgs = NoSubtaskArgs
    /\ VerifyNotStarted
    /\ cacheFile = NoFile
    /\ CacheNotStarted

VerifyNext ==
    \/ Verify
    \/ PrintSupportedNetworks
    \/ GetVerificationSubtasks
    \/ RunSubtask
    \/ ResolveArguments
    \/ GetCurrentChainConfig
    \/ IsVerified
    \/ GetDeployedContractBytecode
    \/ GetMatchingVersions
    \/ ResolveNamedContract
    \/ ResolveInferredContract
    \/ GetLibraryInformation
    \/ GetMinimalInput
    \/ EncodeArguments
    \/ AttemptSubmit
    \/ AttemptSleep
    \/ AttemptPoll
    \/ EtherscanSubtaskEnds
    \/ PrintVerificationErrors
    \/ ProcessExit

VerifySpec == VerifyInit /\ [][VerifyNext]_vars

\* ------------------------------------------------------------ verify:verify
\* The values a caller can pass as constructorArguments: an array, or an
\* object with the same entries that is not an array.
ConstructorArgumentsValues ==
    {[isArray |-> TRUE, value |-> <<7>>], [isArray |-> TRUE, value |-> << >>],
     [isArray |-> FALSE, value |-> <<7>>]}

\* The values a caller can pass as libraries: a dictionary, null, an array,
\* or a string; type is what typeof answers for the value, which is
\* "object" for null too.
LibrariesValues ==
    {[type |-> "object", isArray |-> FALSE, exports |-> l] : l \in SUBSET LibraryNames}
    \cup {[type |-> "object", isArray |-> FALSE, exports |-> Null],
          [type |-> "object", isArray |-> TRUE, exports |-> {}],
          [type |-> "string", isArray |-> FALSE, exports |-> {}]}

\* index.ts 42-47, 156-159: every parameter of verify:verify is optional,
\* the address too.
VerifySubtaskArgsSet ==
    [address : Addresses,
     constructorArguments : ConstructorArgumentsValues,
     libraries : LibrariesValues,
     contract : ContractParams]

\* index.ts 165-172: the error the checks of verify:verify throw, NoError
\* when both pass.
VerifyVerifyError(args) ==
    IF ~args.constructorArguments.isArray
        THEN Err("InvalidConstructorArgumentsError")
    ELSE IF args.libraries.type # "object" \/ args.libraries.isArray
        THEN Err("InvalidLibrariesError")
    ELSE NoError

\* index.ts 174-179: the arguments the Etherscan task is run with.
EtherscanTaskArgs(args) ==
    [address |-> args.address,
     constructorArgsParams |-> args.constructorArguments.value,
     constructorArgs |-> "undefined",
     libraries |-> [type |-> args.libraries.type, exports |-> args.libraries.exports,
                    loads |-> TRUE],
     contract |-> args.contract]

\* index.ts 155-181
VerifyVerify ==
    /\ pc = "verifyVerify"
    /\ IF VerifyVerifyError(subtaskArgs) # NoError
       THEN /\ error' = VerifyVerifyError(subtaskArgs)
            /\ pc' = "done"
            /\ UNCHANGED <<taskArgs, calls>>
       ELSE LET args == EtherscanTaskArgs(subtaskArgs)
                rejected == RunRejects(TASK_VERIFY_ETHERSCAN, args)
            IN  /\ calls' = Append(calls, Call(TASK_VERIFY_ETHERSCAN, args, rejected))
                /\ IF rejected # NoError
                   THEN /\ error' = rejected
                        /\ pc' = "done"
                        /\ UNCHANGED taskArgs
                   ELSE /\ taskArgs' = args
                        /\ pc' = "resolveArguments"
                        /\ UNCHANGED error
    /\ UNCHANGED <<cacheVars, events, verificationArgs, bytecodeVars, infoVars,
                   minimalInput,
                   encodedConstructorArguments, attemptVars, listNetworks, config,
                   verificationSubtasks, verifyPc, cursor, errors, hasErrors,
                   output, exits, subtaskArgs>>

\* One run of verify:verify, the run of the Etherscan task it starts included.
VerifyVerifyInit ==
    /\ subtaskArgs \in VerifySubtaskArgsSet
    /\ taskArgs = NoTaskArgs
    /\ pc = "verifyVerify"
    /\ EtherscanNotStarted
    /\ listNetworks = FALSE
    /\ config = NoConfig
    /\ verifyPc = "idle"
    /\ VerifyNotStarted
    /\ cacheFile = NoFile
    /\ CacheNotStarted

VerifyVerifyNext ==
    \/ VerifyVerify
    \/ ResolveArguments
    \/ GetCurrentChainConfig
    \/ IsVerified
    \/ GetDeployedContractBytecode
    \/ GetMatchingVersions
    \/ ResolveNamedContract
    \/ ResolveInferredContract
    \/ GetLibraryInformation
    \/ GetMinimalInput
    \/ EncodeArguments
    \/ AttemptSubmit
    \/ AttemptSleep
    \/ AttemptPoll

VerifyVerifySpec == VerifyVerifyInit /\ [][VerifyVerifyNext]_vars

\* ------------------------------------------------------- the ledger cache
\* The text of a file is the sequence of its characters.
Quote == "\""
Eol == "\n"

RECURSIVE MembersText(_)
MembersText(json) ==
    IF json = << >> THEN << >>
    ELSE <<Quote, json[1][1], Quote, ":", Quote, json[1][2], Quote>>
         \o (IF Len(json) = 1 THEN << >> ELSE <<",">> \o MembersText(Tail(json)))

\* fs.writeJSON writes JSON.stringify(json), the members in the order of
\* insertion, followed by an end of line.
writeJSONText(json) == <<"{">> \o MembersText(json) \o <<"}", Eol>>

\* The tokens of a text: punctuation and string literals; white space
\* between tokens is skipped.  ok is FALSE when a character starts no token.
Punct(c) == [t |-> "punct", v |-> <<c>>]
Str(chars) == [t |-> "string", v |-> chars]

RECURSIVE Tokens(_)
Tokens(text) ==
    IF text = << >> THEN [ok |-> TRUE, toks |-> << >>]
    ELSE IF Head(text) = Eol THEN Tokens(Tail(text))
    ELSE IF Head(text) \in {"{", "}", ":", ","}
        THEN LET rest == Tokens(Tail(text))
             IN  [ok |-> rest.ok, toks |-> <<Punct(Head(text))>> \o rest.toks]
    ELSE IF Head(text) = Quote
        THEN LET closing == {i \in 2..Len(text) : text[i] = Quote}
             IN  IF closing = {} THEN [ok |-> FALSE, toks |-> << >>]
                 ELSE LET c == CHOOSE i \in closing : \A j \in closing : i <= j
                          rest == Tokens(SubSeq(text, c + 1, Len(text)))
                      IN  IF Eol \in {text[i] : i \in 2..(c - 1)}
                          THEN [ok |-> FALSE, toks |-> << >>]
                          ELSE [ok |-> rest.ok,
                                toks |-> <<Str(SubSeq(text, 2, c - 1))>> \o rest.toks]
    ELSE [ok |-> FALSE, toks |-> << >>]

ParseFailed == [ok |-> FALSE, value |-> NoJson]

\* obj[key] = value: a key the object has keeps its place.
SetMember(obj, key, value) ==
    IF \E i \in DOMAIN obj : obj[i][1] = key
    THEN [i \in DOMAIN obj |-> IF obj[i][1] = key THEN <<key, value>> ELSE obj[i]]
    ELSE Append(obj, <<key, value>>)

\* The members between the braces; keys and values are the strings of one
\* character the cache holds.
RECURSIVE ParseMembers(_, _)
ParseMembers(toks, obj) ==
    IF Len(toks) < 3 THEN ParseFailed
    ELSE IF \/ toks[1].t # "string" \/ toks[2] # Punct(":") \/ toks[3].t # "string"
            \/ Len(toks[1].v) # 1 \/ Len(toks[3].v) # 1
        THEN ParseFailed
    ELSE LET next == SetMember(obj, toks[1].v[1], toks[3].v[1])
         IN  IF Len(toks) = 3 THEN [ok |-> TRUE, value |-> next]
             ELSE IF toks[4] # Punct(",") THEN ParseFailed
             ELSE ParseMembers(SubSeq(toks, 5, Len(toks)), next)

\* JSON.parse of the text of the file, as fs.readJSON applies it.
ParseJSON(text) ==
    LET lexed == Tokens(text)
        t == lexed.toks
    IN  IF ~lexed.ok THEN ParseFailed
        ELSE IF Len(t) < 2 \/ t[1] # Punct("{") \/ t[Len(t)] # Punct("}")
            THEN ParseFailed
        ELSE IF Len(t) = 2 THEN [ok |-> TRUE, value |-> NoJson]
        ELSE ParseMembers(SubSeq(t, 2, Len(t) - 1), << >>)

\* cache.ts 17-19: what read() returns for the text fs.readJSON has read:
\* the value JSON.parse gives, or undefined when JSON.parse throws.
ReadOutcome(text) ==
    IF ~ParseJSON(text).ok THEN [kind |-> "undefined", value |-> NoJson]
    ELSE [kind |-> "value", value |-> ParseJSON(text).value]

\* One read request of fs.readFile at position pos: a file whose size was
\* 0 is read to its end, another one up to the size taken before.
BytesRead(text, pos, size) ==
    LET avail == SubSeq(text, pos + 1, Len(text))
        want == IF size = 0 \/ Len(avail) < size - pos THEN Len(avail)
                ELSE size - pos
    IN  SubSeq(avail, 1, want)

\* A write through a descriptor opened by this call: the text goes to the
\* start of the file and what the file held beyond it stays.
Overlay(old, data) == data \o SubSeq(old, Len(data) + 1, Len(old))

\* The texts the file can hold before the first call: what an earlier
\* write() left, or something that is not JSON.
InitialFiles ==
    {NoFile}
    \cup {[exists |-> TRUE, text |-> writeJSONText(j)] : j \in Jsons}
    \cup {[exists |-> TRUE, text |-> t] :
             t \in {<< >>, <<"{", Quote, "a", Quote, ":">>, <<"#">>}}

notCacheVars == <<etherscanVars, verifyVars>>

WriteInProgress == \E w \in Writers : writers[w].pc # "idle"

\* cache.ts 8-9: write(json) is called and resolves the path of the file.
WriteStart ==
    /\ \E w \in Writers, json \in Jsons :
          /\ writers[w].pc = "idle"
          /\ writers' = [writers EXCEPT ![w] = [pc |-> "open", json |-> json]]
    /\ reader' = IF reader.pc # "idle" THEN [reader EXCEPT !.overlapped = TRUE]
                 ELSE reader
    /\ UNCHANGED <<notCacheVars, cacheFile, lastWritten, lastResult>>

\* cache.ts 10: the file is opened for writing, which creates or empties it.
WriteOpen ==
    /\ \E w \in Writers :
          /\ writers[w].pc = "open"
          /\ writers' = [writers EXCEPT ![w].pc = "data"]
    /\ cacheFile' = [exists |-> TRUE, text |-> << >>]
    /\ UNCHANGED <<notCacheVars, reader, lastWritten, lastResult>>

\* cache.ts 10: the text is written through the descriptor of the call.
WriteData ==
    /\ \E w \in Writers :
          /\ writers[w].pc = "data"
          /\ writers' = [writers EXCEPT ![w].pc = "close"]
          /\ cacheFile' =
                [cacheFile EXCEPT
                    !.text = Overlay(cacheFile.text, writeJSONText(writers[w].json))]
    /\ UNCHANGED <<notCacheVars, reader, lastWritten, lastResult>>

\* cache.ts 10-11: the descriptor is closed and write() returns.
WriteReturn ==
    /\ \E w \in Writers :
          /\ writers[w].pc = "close"
          /\ lastWritten' = [defined |-> TRUE, json |-> writers[w].json]
          /\ writers' = [writers EXCEPT ![w] = NoWriter]
    /\ UNCHANGED <<notCacheVars, cacheFile, reader, lastResult>>

\* cache.ts 13-14: read() is called and resolves the path of the file.
ReadStart ==
    /\ reader.pc = "idle"
    /\ reader' = [NoReader EXCEPT !.pc = "access", !.overlapped = WriteInProgress]
    /\ UNCHANGED <<notCacheVars, cacheFile, writers, lastWritten, lastResult>>

\* cache.ts 16, 19: fs.access; its error is caught and read() returns.
ReadAccess ==
    /\ reader.pc = "access"
    /\ IF ~cacheFile.exists
       THEN /\ lastResult' = [kind |-> "undefined", value |-> NoJson]
            /\ reader' = NoReader
       ELSE /\ reader' = [reader EXCEPT !.pc = "open"]
            /\ UNCHANGED lastResult
    /\ UNCHANGED <<notCacheVars, cacheFile, writers, lastWritten>>

\* cache.ts 17, 19: fs.readJSON opens the file for reading; its error is
\* caught and read() returns.
ReadOpen ==
    /\ reader.pc = "open"
    /\ IF ~cacheFile.exists
       THEN /\ lastResult' = [kind |-> "undefined", value |-> NoJson]
            /\ reader' = NoReader
       ELSE /\ reader' = [reader EXCEPT !.pc = "fstat"]
            /\ UNCHANGED lastResult
    /\ UNCHANGED <<notCacheVars, cacheFile, writers, lastWritten>>

\* cache.ts 17: fs.readJSON takes the size of the file.
ReadStat ==
    /\ reader.pc = "fstat"
    /\ reader' = [reader EXCEPT !.pc = "read", !.size = Len(cacheFile.text)]
    /\ UNCHANGED <<notCacheVars, cacheFile, writers, lastWritten, lastResult>>

\* cache.ts 17: fs.readJSON reads from where the last request ended, until
\* it has the size it took or a request gives nothing.
ReadData ==
    /\ reader.pc = "read"
    /\ LET bytes == BytesRead(cacheFile.text, Len(reader.data), reader.size)
           data == reader.data \o bytes
       IN  reader' = [reader EXCEPT
                         !.data = data,
                         !.pc = IF bytes = << >> \/ Len(data) = reader.size
                                THEN "readJSON" ELSE "read"]
    /\ UNCHANGED <<notCacheVars, cacheFile, writers, lastWritten, lastResult>>

\* cache.ts 17-19: fs.readJSON closes the file and parses what it has read;
\* read() returns the value or, on an error, undefined.
ReadJSON ==
    /\ reader.pc = "readJSON"
    /\ lastResult' = ReadOutcome(reader.data)
    /\ reader' = NoReader
    /\ UNCHANGED <<notCacheVars, cacheFile, writers, lastWritten>>

\* Calls of write(), which can overlap, and calls of read(), which can fall
\* between the steps of the writes.
CacheInit ==
    /\ cacheFile \in InitialFiles
    /\ CacheNotStarted
    /\ taskArgs = NoTaskArgs
    /\ pc = "idle"
    /\ EtherscanNotStarted
    /\ listNetworks = FALSE
    /\ config = NoConfig
    /\ verifyPc = "idle"
    /\ subtaskArgs = NoSubtaskArgs
    /\ VerifyNotStarted

CacheNext ==
    \/ WriteStart
    \/ WriteOpen
    \/ WriteData
    \/ WriteReturn
    \/ ReadStart
    \/ ReadAccess
    \/ ReadOpen
    \/ ReadStat
    \/ ReadData
    \/ ReadJSON

CacheSpec == CacheInit /\ [][CacheNext]_vars

\* ------------------------------------------------------------------ claims
EventsOf(e) == {i \in DOMAIN events : events[i].e = e}
EventsOfAttempt(e, n) == {i \in EventsOf(e) : events[i].att = n}
Done == pc = "done"

VerificationFailed(message) ==
    [type |-> "ContractVerificationFailedError", message |-> message,
     undetectableLibraries |-> contractInformation.undetectableLibraries]

\* C1: the first submission uses the minimal input; a Failure of the first
\* attempt is followed by exactly one more submission, with the full input
\* of the contract information; a Failure of that one ends the run with one
\* ContractVerificationFailedError that carries the message of the full-input
\* attempt and the undetectable libraries of the contract.
C1_RetryPolicy ==
    /\ Len(submissions) <= 2
    /\ Len(submissions) >= 1 =>
          /\ submissions[1].input = "minimal"
          /\ submissions[1].compilerInput = JSONstringify(minimalInput)
    /\ (Len(responses) >= 1 /\ ~responses[1].success) =>
          \/ Len(submissions) = 2
          \/ pc = "submit" /\ attempt = 2 /\ Len(submissions) = 1
    /\ Len(submissions) = 2 =>
          /\ submissions[2].input = "full"
          /\ submissions[2].compilerInput =
                JSONstringify(contractInformation.compilerInput)
    /\ (Len(responses) = 2 /\ ~responses[2].success) =>
          /\ Done
          /\ error = VerificationFailed(responses[2].message)

C1_Witness ==
    /\ Done
    /\ Len(responses) = 2
    /\ ~responses[2].success
    /\ responses[1].message # responses[2].message
    /\ error.type = "ContractVerificationFailedError"
    /\ error.undetectableLibraries # {}

\* C2: a successful attempt is the last thing the run does: after a success
\* of the minimal-input attempt there is one submission only, after a success
\* of the full-input attempt there are two, and in both cases the run has
\* ended without an error.
C2_SuccessEndsRun ==
    \A n \in DOMAIN responses :
        responses[n].success =>
            /\ n = Len(responses)
            /\ Len(submissions) = n
            /\ Done
            /\ error = NoError
            /\ events[Len(events)].e = "poll"
            /\ events[Len(events)].att = n

C2_Witness ==
    /\ Len(responses) = 2
    /\ responses[2].success
    /\ Done

\* C3: a polled status that is neither a success nor a failure (a pending one
\* included) makes the attempt raise VerificationAPIUnexpectedMessageError
\* with the message of the service; the attempt returns nothing and nothing
\* follows it, so on the minimal-input attempt there is no full-input
\* submission.
C3_UnexpectedStatusIsError ==
    /\ \A i \in EventsOf("poll") :
          events[i].message \in OtherMessages =>
              /\ i = Len(events)
              /\ Done
              /\ error = ErrMsg("VerificationAPIUnexpectedMessageError",
                                events[i].message)
              /\ Len(responses) = events[i].att - 1
              /\ Len(submissions) = events[i].att
    /\ \A n \in DOMAIN responses :
          responses[n].message \in SuccessMessages \cup FailureMessages

C3_Witness ==
    /\ Done
    /\ \E i \in EventsOfAttempt("poll", 1) : events[i].message = "Pending in queue"
    /\ Len(submissions) = 1

\* C4 as stated: every run whose minimal-input attempt was made and did not
\* succeed has made a full-input submission when it ends.
C4_FallbackForAnyReason ==
    (/\ Done
     /\ Len(submissions) >= 1
     /\ ~(Len(responses) >= 1 /\ responses[1].success))
    => Len(submissions) >= 2

\* C4 amended: a run whose minimal-input attempt returned a Failure status
\* goes on to a full-input submission; a run whose minimal-input attempt
\* raised an error ends with that error and without a full-input submission.
C4_FallbackOnFailureOnly ==
    /\ (Done /\ Len(responses) >= 1 /\ ~responses[1].success) =>
          /\ Len(submissions) = 2
          /\ submissions[2].input = "full"
    /\ (Done /\ Len(submissions) >= 1 /\ Len(responses) = 0) =>
          /\ Len(submissions) = 1
          /\ error # NoError

C4_Witness ==
    /\ Done
    /\ Len(submissions) = 2
    /\ responses[1].message \in FailureMessages

\* C5: a run makes at most two submissions and at most one status check per
\* submission, each check after its submission; the second submission is
\* made only after the first attempt returned Failure; a status check that
\* finds the verification still pending ends the run with an error.
C5_BoundedInteractions ==
    /\ Len(submissions) <= 2
    /\ Cardinality(EventsOf("submit")) = Len(submissions)
    /\ \A i \in EventsOf("submit") \cup EventsOf("poll") : events[i].att \in {1, 2}
    /\ \A n \in {1, 2} :
          /\ Cardinality(EventsOfAttempt("submit", n)) <= 1
          /\ Cardinality(EventsOfAttempt("poll", n)) <= 1
          /\ \A i \in EventsOfAttempt("poll", n) :
                \E j \in EventsOfAttempt("submit", n) : j < i
    /\ Len(submissions) = 2 =>
          /\ Len(responses) >= 1
          /\ ~responses[1].success
          /\ responses[1].message \in FailureMessages
    /\ \A i \in EventsOf("poll") :
          events[i].message = "Pending in queue" =>
              /\ Done
              /\ error.type = "VerificationAPIUnexpectedMessageError"
              /\ i = Len(events)

C5_Witness ==
    /\ Done
    /\ \E i \in EventsOfAttempt("poll", 2) : events[i].message = "Pending in queue"
    /\ error # NoError

\* C6: every status check is preceded, within its attempt, by the submission
\* that returned the tracking id it asks about and, between the two, by the
\* pause of 700 ms.
C6_SubmitSleepPoll ==
    \A i \in EventsOf("poll") :
        \E j \in EventsOf("submit"), k \in EventsOf("sleep") :
            /\ j < k
            /\ k < i
            /\ events[j].att = events[i].att
            /\ events[k].att = events[i].att
            /\ events[j].a = events[i].a
            /\ events[k].a = 700

C6_Witness ==
    /\ EventsOfAttempt("poll", 2) # {}
    /\ \E i \in EventsOfAttempt("submit", 1), j \in EventsOfAttempt("submit", 2) :
          events[i].a # events[j].a

\* C7: the stages of a run happen in the order bytecode fetch, version
\* matching, contract resolution, library resolution, minimal-input attempt,
\* full-input attempt; a stage happens only after the stage before it, the
\* full-input attempt only after the status check of the minimal-input one,
\* and nothing happens once an error has been raised.
StageRank(ev) ==
    CASE ev.e = "fetchBytecode" -> 1
      [] ev.e = "matchVersions" -> 2
      [] ev.e = "contractResolution" -> 3
      [] ev.e = "libraryResolution" -> 4
      [] ev.e \in {"submit", "sleep", "poll"} -> 4 + ev.att
      [] OTHER -> 0

StagesInOrder ==
    /\ \A i, j \in DOMAIN events :
          (i < j /\ StageRank(events[i]) > 0 /\ StageRank(events[j]) > 0) =>
              /\ StageRank(events[i]) <= StageRank(events[j])
              /\ StageRank(events[j]) <= 4 => StageRank(events[i]) < StageRank(events[j])
    /\ \A j \in DOMAIN events :
          /\ StageRank(events[j]) \in 2..5 =>
                \E i \in 1..(j - 1) : StageRank(events[i]) = StageRank(events[j]) - 1
          /\ StageRank(events[j]) = 6 =>
                \E i \in 1..(j - 1) : events[i].e = "poll" /\ events[i].att = 1
          /\ StageRank(events[j]) <= 6

C7_StrictlySequential ==
    /\ []StagesInOrder
    /\ [][error # NoError => (events' = events /\ pc' = "done")]_vars

C7_Witness ==
    /\ Done
    /\ EventsOfAttempt("poll", 2) # {}
    /\ EventsOf("libraryResolution") # {}

\* C8: the argument checks are made in the order address given, address
\* valid, contract name fully qualified, constructor-argument module, library
\* module; the first that fails decides the error, and the run ends with it
\* having made no chain-config lookup, isVerified query, bytecode fetch,
\* submission or status check.
InputErrorTypes ==
    {"MissingAddressError", "InvalidAddressError", "InvalidContractNameError",
     "InvalidConstructorArgumentsModuleError", "InvalidLibrariesModuleError"}

NetworkEvents == {"chainConfig", "isVerified", "fetchBytecode", "submit", "poll"}

ExpectedInputError ==
    IF taskArgs.address = "undefined" THEN "MissingAddressError"
    ELSE IF taskArgs.address # "0xC0FFEE" THEN "InvalidAddressError"
    ELSE IF Len(taskArgs.contract) = 1 THEN "InvalidContractNameError"
    ELSE IF taskArgs.constructorArgs = "broken-args.js"
        THEN "InvalidConstructorArgumentsModuleError"
    ELSE IF taskArgs.libraries.type = "string" /\ ~taskArgs.libraries.loads
        THEN "InvalidLibrariesModuleError"
    ELSE "none"

C8_InputErrorsBeforeNetwork ==
    /\ (events # << >> /\ ExpectedInputError # "none") =>
          /\ error.type = ExpectedInputError
          /\ Done
    /\ error.type \in InputErrorTypes =>
          /\ \A i \in DOMAIN events : events[i].e \notin NetworkEvents
          /\ submissions = << >>
          /\ ExpectedInputError = error.type

C8_Witness ==
    /\ Done
    /\ error.type = "InvalidAddressError"
    /\ Len(taskArgs.contract) = 1
    /\ taskArgs.constructorArgs = "broken-args.js"

\* C9: when the run has raised a resolution error, nothing has been
\* submitted to the verification service.
ResolutionErrorTypes ==
    {"CompilerVersionsMismatchError", "ContractNotFoundError",
     "BuildInfoNotFoundError", "BuildInfoCompilerVersionMismatchError",
     "DeployedBytecodeMismatchError", "NoMatchingContractError",
     "MultipleMatchingContractsError"}

C9_ResolutionErrorsBeforeSubmission ==
    error.type \in ResolutionErrorTypes =>
        /\ submissions = << >>
        /\ EventsOf("submit") = {}
        /\ EventsOf("poll") = {}

C9_Witness ==
    /\ Done
    /\ error.type = "DeployedBytecodeMismatchError"
    /\ EventsOf("contractResolution") # {}

\* C10: CompilerVersionsMismatchError is raised exactly when the list of
\* matching versions is empty and the bytecode is not OVM; with an empty list
\* and OVM bytecode the run goes on to contract resolution, with the empty
\* list.
C10_VersionsMismatch ==
    LET matched == EventsOf("matchVersions") # {}
        empty == matchingCompilerVersions = << >>
    IN  /\ ~matched => error.type # "CompilerVersionsMismatchError"
        /\ matched =>
              (error.type = "CompilerVersionsMismatchError"
                  <=> (empty /\ ~deployedBytecode.ovm))
        /\ (matched /\ empty /\ deployedBytecode.ovm
              /\ events[Len(events)].e = "matchVersions") =>
              /\ pc = "contractInformation"
              /\ error = NoError
        /\ (EventsOf("contractResolution") # {} /\ deployedBytecode.tag = "exact"
              /\ deployedBytecode.version \notin SeqToSet(configCompilerVersions)) =>
              /\ deployedBytecode.ovm
              /\ empty

C10_Witness ==
    /\ EventsOf("contractResolution") # {}
    /\ matchingCompilerVersions = << >>
    /\ deployedBytecode.ovm
    /\ resolution.mode = "named"
    /\ contractInformation # NoContractInformation

\* C11: with a contract name given, the resolver asks the artifacts for that
\* name only and the first failing check decides the error: artifact missing,
\* then build info missing, then compiler version of the build info neither
\* among the matching versions nor excused by OVM bytecode, then bytecode
\* mismatch.  With OVM bytecode the version check does not fail.  Inferred
\* matching is not used.
NamedModeErrorTypes ==
    {"ContractNotFoundError", "BuildInfoNotFoundError",
     "BuildInfoCompilerVersionMismatchError", "DeployedBytecodeMismatchError"}

ExpectedNamedError ==
    IF ~resolution.exists THEN "ContractNotFoundError"
    ELSE IF ~resolution.hasBuildInfo THEN "BuildInfoNotFoundError"
    ELSE IF /\ \A i \in DOMAIN matchingCompilerVersions :
                  matchingCompilerVersions[i] # resolution.solcVersion
            /\ ~deployedBytecode.ovm
        THEN "BuildInfoCompilerVersionMismatchError"
    ELSE IF ~resolution.codeMatches THEN "DeployedBytecodeMismatchError"
    ELSE "none"

C11_NamedModeOrder ==
    /\ resolution.mode = "named" =>
          /\ verificationArgs.contractFQN # << >>
          /\ ExpectedNamedError # "none" =>
                /\ error.type = ExpectedNamedError
                /\ Done
                /\ events[Len(events)].e = "contractResolution"
                /\ contractInformation = NoContractInformation
          /\ ExpectedNamedError = "none" =>
                /\ error.type \notin NamedModeErrorTypes
                /\ contractInformation.sourceName = verificationArgs.contractFQN[1]
          /\ deployedBytecode.ovm =>
                error.type # "BuildInfoCompilerVersionMismatchError"
    /\ verificationArgs.contractFQN # << >> =>
          /\ resolution.mode \in {"none", "named"}
          /\ resolution.matches = 0
          /\ error.type \notin {"NoMatchingContractError", "MultipleMatchingContractsError"}
    /\ resolution.mode = "inferred" => error.type \notin NamedModeErrorTypes

C11_Witness ==
    /\ resolution.mode = "named"
    /\ resolution.hasBuildInfo
    /\ ~resolution.codeMatches
    /\ ~deployedBytecode.ovm
    /\ resolution.solcVersion \notin SeqToSet(matchingCompilerVersions)
    /\ error.type = "BuildInfoCompilerVersionMismatchError"

\* C12: isVerified is asked before the bytecode is fetched; when it answers
\* true the run ends there, without an error and without a bytecode fetch, a
\* contract resolution, a submission or a status check; when it answers false
\* the run goes on with the bytecode fetch.
WorkEvents ==
    {"fetchBytecode", "matchVersions", "contractResolution", "libraryResolution",
     "minimalInput", "encodeArguments", "submit", "sleep", "poll"}

C12_AlreadyVerified ==
    /\ \A i \in EventsOf("isVerified") :
          /\ events[i].a = 1 =>
                /\ i = Len(events)
                /\ Done
                /\ error = NoError
                /\ submissions = << >>
          /\ (events[i].a = 0 /\ i = Len(events) /\ error = NoError) =>
                pc = "fetchBytecode"
    /\ \A j \in DOMAIN events :
          events[j].e \in WorkEvents =>
              \E i \in EventsOf("isVerified") : i < j /\ events[i].a = 0
    /\ Cardinality(EventsOf("isVerified")) <= 1

C12_Witness ==
    /\ Done
    /\ error = NoError
    /\ \E i \in EventsOf("isVerified") : events[i].a = 1

\* C13: once the library resolver has returned, no step of the run changes
\* the contract information.
C13_InformationImmutable ==
    [][EventsOf("libraryResolution") # {} =>
          contractInformation' = contractInformation]_vars

\* C14 as stated: the minimal input reducer never ends in an error.
C14_ReducerNeverFails ==
    (events # << >> /\ events[Len(events)].e = "minimalInput") =>
        /\ error = NoError
        /\ contractInformation.sourceName \in minimalInput.sources

\* C14 amended: the reducer returns a compiler input that holds the source
\* file when the dependency graph has exactly one resolved file with the
\* source name, and raises UnexpectedNumberOfFilesError when it has none or
\* several.
C14_ReducerNeedsOneFile ==
    \A i \in EventsOf("minimalInput") :
        /\ events[i].a = 1 =>
              /\ contractInformation.sourceName \in minimalInput.sources
              /\ minimalInput.sources \subseteq contractInformation.compilerInput.sources
              /\ error.type # "UnexpectedNumberOfFilesError"
              /\ i = Len(events) => (pc = "encodeArguments" /\ error = NoError)
        /\ events[i].a # 1 =>
              /\ error = Err("UnexpectedNumberOfFilesError")
              /\ Done
              /\ i = Len(events)
              /\ minimalInput = EmptyInput

C14_Witness ==
    /\ pc = "encodeArguments"
    /\ \E i \in EventsOf("minimalInput") : events[i].a = 1
    /\ minimalInput.sources # {contractInformation.sourceName}

\* C15: every submission carries the text of its compiler input with the
\* resolved libraries of the contract information in settings.libraries, the
\* contract identifier sourceName:contractName, the compiler version "v" and
\* the solc long version, and the encoded constructor arguments.
C15_SubmissionPayload ==
    \A n \in DOMAIN submissions :
        /\ submissions[n].compilerInput[1] = "{sources:"
        /\ submissions[n].compilerInput[2] =
              (IF submissions[n].input = "minimal" THEN minimalInput.sources
               ELSE contractInformation.compilerInput.sources)
        /\ submissions[n].compilerInput[3] = ",settings:{libraries:"
        /\ submissions[n].compilerInput[4] = contractInformation.libraries
        /\ submissions[n].compilerInput[4] = verificationArgs.libraries
        /\ submissions[n].contractIdentifier =
              <<contractInformation.sourceName, ":", contractInformation.contractName>>
        /\ submissions[n].compilerVersion = <<"v", contractInformation.solcLongVersion>>
        /\ submissions[n].constructorArguments =
              [i \in DOMAIN verificationArgs.constructorArgs |->
                  <<"word", verificationArgs.constructorArgs[i]>>]
        /\ submissions[n].address = taskArgs.address

C15_Witness ==
    /\ Len(submissions) = 2
    /\ contractInformation.libraries # {}
    /\ submissions[2].compilerInput[4] # {}

\* C16: the full-input submission has the address, the contract identifier,
\* the compiler version, the libraries and the encoded constructor arguments
\* of the minimal-input submission, whatever status the minimal-input attempt
\* ended with; only the sources of the compiler input differ.
C16_AttemptsDifferInInputOnly ==
    Len(submissions) = 2 =>
        /\ submissions[2].address = submissions[1].address
        /\ submissions[2].contractIdentifier = submissions[1].contractIdentifier
        /\ submissions[2].compilerVersion = submissions[1].compilerVersion
        /\ submissions[2].compilerInput[4] = submissions[1].compilerInput[4]
        /\ submissions[2].constructorArguments = submissions[1].constructorArguments
        /\ submissions[1].constructorArguments = encodedConstructorArguments
        /\ submissions[1].input = "minimal"
        /\ submissions[2].input = "full"

C16_Witness ==
    /\ Len(submissions) = 2
    /\ submissions[1].compilerInput # submissions[2].compilerInput
    /\ submissions[1].constructorArguments # << >>
    /\ responses[1].message = "Fail - Bytecode does not match"

\* ------------------------------------------------- claims on the verify task
CallsOf(task) == {i \in DOMAIN calls : calls[i].task = task}
SubtaskCalls ==
    SelectSeq(calls, LAMBDA c : c.task \notin {TASK_VERIFY_PRINT_SUPPORTED_NETWORKS,
                                               TASK_VERIFY_GET_VERIFICATION_SUBTASKS})
LoopOver == verifyPc \in {"report", "exit", "done"}

\* C17: the verify task runs each subtask of the list once, in the order of
\* the list, whether or not an earlier one threw; an error is recorded under
\* the name of the subtask that threw it; the process exits with code 1
\* exactly when a subtask threw, after the recorded errors were printed.
C17_AllSubtasksRun ==
    ~listNetworks =>
        /\ Len(SubtaskCalls) = cursor - 1
        /\ Len(SubtaskCalls) <= Len(verificationSubtasks)
        /\ \A i \in DOMAIN SubtaskCalls :
              /\ SubtaskCalls[i].task = verificationSubtasks[i]
              /\ SubtaskCalls[i].args = taskArgs
              /\ SubtaskCalls[i].outcome # NoError =>
                    /\ SubtaskCalls[i].task \in DOMAIN errors
                    /\ errors[SubtaskCalls[i].task] = SubtaskCalls[i].outcome
        /\ DOMAIN errors =
              {SubtaskCalls[i].task :
                  i \in {j \in DOMAIN SubtaskCalls : SubtaskCalls[j].outcome # NoError}}
        /\ hasErrors <=> (DOMAIN errors # {})
        /\ (LoopOver /\ CallsOf(TASK_VERIFY_GET_VERIFICATION_SUBTASKS) # {}) =>
              Len(SubtaskCalls) = Len(verificationSubtasks)
        /\ exits \in {<< >>, <<1>>}
        /\ exits = <<1>> =>
              /\ hasErrors
              /\ output # << >>
              /\ output[Len(output)] = Printed("verificationErrors", errors)
        /\ verifyPc = "done" => (exits = <<1>> <=> hasErrors)
        /\ ~LoopOver => exits = << >>
        /\ \A i \in DOMAIN SubtaskCalls :
              SubtaskCalls[i].task = TASK_VERIFY_ETHERSCAN =>
                  /\ pc \in {"idle", "done"}
                  /\ SubtaskCalls[i].outcome =
                        (IF taskArgs.address = "undefined" THEN Err("HardhatError")
                         ELSE error)
        /\ verifyPc = "awaitSubtask" =>
              /\ verificationSubtasks[cursor] = TASK_VERIFY_ETHERSCAN
              /\ pc # "idle"
        /\ (pc \notin {"idle", "done"}) => verifyPc = "awaitSubtask"
        /\ events # << >> => (config.etherscan /\ taskArgs.address # "undefined")

C17_Witness ==
    /\ verifyPc = "done"
    /\ Len(SubtaskCalls) = 2
    /\ SubtaskCalls[1].task = TASK_VERIFY_ETHERSCAN
    /\ SubtaskCalls[1].outcome.type = "ContractVerificationFailedError"
    /\ Len(submissions) = 2
    /\ SubtaskCalls[2].outcome = NoError
    /\ exits = <<1>>

\* C19: with the listNetworks flag the verify task runs the task that prints
\* the supported networks and nothing else: it does not ask for the list of
\* subtasks, runs none of them and does not call process.exit.
C19_ListNetworksOnly ==
    listNetworks =>
        /\ \A i \in DOMAIN calls : calls[i].task = TASK_VERIFY_PRINT_SUPPORTED_NETWORKS
        /\ Len(calls) <= 1
        /\ verificationSubtasks = << >>
        /\ SubtaskCalls = << >>
        /\ exits = << >>
        /\ errors = NoErrors
        /\ pc = "idle"
        /\ events = << >>
        /\ submissions = << >>
        /\ verifyPc \in {"start", "printNetworks", "done"}
        /\ verifyPc = "done" =>
              /\ Len(calls) = 1
              /\ output = <<Printed("supportedNetworks", NoErrors)>>

C19_Witness ==
    /\ listNetworks
    /\ verifyPc = "done"
    /\ config.etherscan
    /\ config.sourcify
    /\ calls # << >>

\* C20: the list of subtasks holds the Etherscan task exactly when
\* config.etherscan.enabled, before any Sourcify entry; the Sourcify task
\* exactly when config.sourcify.enabled; never both the Sourcify task and the
\* Sourcify-disabled warning; the warning exactly when config.sourcify.enabled
\* is false and the user's sourcify.enabled is undefined or false.
InList(name) == \E i \in DOMAIN verificationSubtasks : verificationSubtasks[i] = name

C20_SubtaskList ==
    CallsOf(TASK_VERIFY_GET_VERIFICATION_SUBTASKS) # {} =>
        /\ InList(TASK_VERIFY_ETHERSCAN) <=> config.etherscan
        /\ \A i, j \in DOMAIN verificationSubtasks :
              (/\ verificationSubtasks[i] = TASK_VERIFY_ETHERSCAN
               /\ verificationSubtasks[j] \in
                     {TASK_VERIFY_SOURCIFY, TASK_VERIFY_SOURCIFY_DISABLED_WARNING})
              => i < j
        /\ InList(TASK_VERIFY_SOURCIFY) <=> config.sourcify
        /\ ~(InList(TASK_VERIFY_SOURCIFY) /\ InList(TASK_VERIFY_SOURCIFY_DISABLED_WARNING))
        /\ InList(TASK_VERIFY_SOURCIFY_DISABLED_WARNING) <=>
              (~config.sourcify /\ config.userSourcify \in {"undefined", "false"})
        /\ \A i, j \in DOMAIN verificationSubtasks :
              verificationSubtasks[i] = verificationSubtasks[j] => i = j
        /\ \A i \in DOMAIN verificationSubtasks :
              verificationSubtasks[i] \in
                  {TASK_VERIFY_ETHERSCAN, TASK_VERIFY_SOURCIFY,
                   TASK_VERIFY_SOURCIFY_DISABLED_WARNING}

C20_Witness ==
    /\ verificationSubtasks =
          <<TASK_VERIFY_ETHERSCAN, TASK_VERIFY_SOURCIFY_DISABLED_WARNING>>
    /\ config.userSourcify = "false"
    /\ CallsOf(TASK_VERIFY_GET_VERIFICATION_SUBTASKS) # {}

\* An object, as the claim names it: a value whose typeof is "object" and
\* which is not null.
IsObject(libraries) == libraries.type = "object" /\ libraries.exports # Null

ExpectedVerifyVerifyError ==
    IF ~subtaskArgs.constructorArguments.isArray
        THEN "InvalidConstructorArgumentsError"
    ELSE IF ~IsObject(subtaskArgs.libraries) THEN "InvalidLibrariesError"
    ELSE IF subtaskArgs.libraries.isArray THEN "InvalidLibrariesError"
    ELSE "none"

\* C18: verify:verify checks its arguments before it starts a verification:
\* constructorArguments that is not an array ends it with
\* InvalidConstructorArgumentsError; otherwise libraries that is not an
\* object, or is an array, ends it with InvalidLibrariesError; in both cases
\* the Etherscan task is not run.  Otherwise the Etherscan task is run once,
\* with the address, contract and libraries of the call and with
\* constructorArguments as constructorArgsParams.
C18_ValidatesBeforeEtherscan ==
    pc # "verifyVerify" =>
        /\ ExpectedVerifyVerifyError # "none" =>
              /\ error = Err(ExpectedVerifyVerifyError)
              /\ pc = "done"
              /\ CallsOf(TASK_VERIFY_ETHERSCAN) = {}
              /\ events = << >>
              /\ submissions = << >>
              /\ taskArgs = NoTaskArgs
        /\ ExpectedVerifyVerifyError = "none" =>
              /\ Cardinality(CallsOf(TASK_VERIFY_ETHERSCAN)) = 1
              /\ Len(calls) = 1
              /\ calls[1].args.address = subtaskArgs.address
              /\ calls[1].args.contract = subtaskArgs.contract
              /\ calls[1].args.libraries.type = "object"
              /\ calls[1].args.libraries.exports = subtaskArgs.libraries.exports
              /\ calls[1].args.constructorArgsParams =
                    subtaskArgs.constructorArguments.value
              /\ calls[1].args.constructorArgs = "undefined"
              /\ calls[1].outcome =
                    RunRejects(TASK_VERIFY_ETHERSCAN, calls[1].args)
              /\ IF calls[1].outcome = NoError
                 THEN taskArgs = calls[1].args
                 ELSE /\ taskArgs = NoTaskArgs
                      /\ error = calls[1].outcome
                      /\ pc = "done"
                      /\ events = << >>
              /\ error.type \notin
                    {"InvalidConstructorArgumentsError", "InvalidLibrariesError"}
              /\ events # << >> =>
                    /\ events[1].e = "resolveArguments"
                    /\ Cardinality(EventsOf("resolveArguments")) = 1
              /\ (events # << >> /\ error.type \notin InputErrorTypes) =>
                    /\ verificationArgs.libraries = subtaskArgs.libraries.exports
                    /\ verificationArgs.constructorArgs =
                          subtaskArgs.constructorArguments.value

\* ------------------------------------------------ claims on the ledger cache
\* The file holds the text of the JSON object j, with or without its end of
\* line.
HoldsTextOf(file, j) ==
    /\ file.exists
    /\ \/ file.text = writeJSONText(j)
       \/ file.text \o <<Eol>> = writeJSONText(j)

\* read() returns in this step.
ReadReturns == reader.pc # "idle" /\ reader'.pc = "idle"

\* C21: a read() that follows a write(json) that has returned, with no write
\* between them, returns json; read() returns undefined, and raises nothing,
\* when the file does not exist or does not hold the text of a JSON value
\* or when it falls between the steps of a write; a read() that no write
\* overlaps returns a value exactly when the file holds its text; no step
\* of read() changes the file.
C21_CacheReadWrite ==
    /\ [][ReadReturns =>
            /\ lastResult'.kind \in {"value", "undefined"}
            /\ (~reader.overlapped /\ lastWritten.defined) =>
                  /\ lastResult'.kind = "value"
                  /\ lastResult'.value = lastWritten.json
            /\ (~reader.overlapped /\ lastResult'.kind = "value") =>
                  HoldsTextOf(cacheFile, lastResult'.value)
            /\ (~reader.overlapped /\ lastResult'.kind = "undefined") =>
                  \A j \in Jsons : ~HoldsTextOf(cacheFile, j)]_vars
    /\ [][(reader' # reader /\ writers' = writers) => cacheFile' = cacheFile]_vars
====
